---- MODULE Spec2Model ----
(***************************************************************************)
(* Staged bootstrap of the ArtReal backend (backend/app/main.py).          *)
(*                                                                         *)
(* The module body of main.py is a straight line of statements; each       *)
(* statement group is one action below.  Every call may raise a Python     *)
(* Exception (outcome "exc") or complete (outcome "ok"); what happens to   *)
(* the exception is decided by the try/except that encloses the call in    *)
(* the source, or by the absence of one.  After the module is loaded the   *)
(* ASGI server runs the registered startup hooks, serves requests, and on  *)
(* a shutdown request runs the registered shutdown hooks and exits.        *)
(***************************************************************************)
EXTENDS Integers, Sequences, FiniteSets, TLC

VARIABLES run_as, module_name, listener, handles,
          pc, platform, PORT, stdout_wrapped, settings, app, imported,
          executed, outcome, log, raised, responses,
          startup_runs, shutdown_runs, init_db_calls,
          startup_result, shutdown_result

vars == <<run_as, module_name, listener, handles,
          pc, platform, PORT, stdout_wrapped, settings, app, imported,
          executed, outcome, log, raised, responses,
          startup_runs, shutdown_runs, init_db_calls,
          startup_result, shutdown_result>>

----------------------------------------------------------------------------
(* Bounds and input sets *)

MaxRequests == 2

(* How the process is started: "script" executes main.py as __main__ (the  *)
(* entry point of lines 124-132 then starts the server); "server" is an    *)
(* ASGI server started outside this file that imports app.main.            *)
RunModes == {"script", "server"}
ModuleNames == {"__main__", "app.main"}
Platforms == {"linux", "win32"}
NotSet == "not set"
PortValues == {NotSet, "8000", "8080"}
Versions == {"0.1.0", "1.0.0", "2.3.1"}
Prefixes == {"/api/v1", "/api"}
Outcomes == {"ok", "exc"}
RequestPaths == {"/", "/health", "/missing"}

----------------------------------------------------------------------------
(* The module body: statement order of main.py *)

StageOrder_HealthLate ==
    << "configure_logging", "load_settings", "create_app", "add_middleware",
       "register_root", "import_db", "import_router", "register_health",
       "include_router", "set_log_levels", "register_startup",
       "register_shutdown" >>

StageOrder ==
    << "configure_logging", "load_settings", "create_app", "add_middleware",
       "register_root", "register_health", "import_db", "import_router",
       "include_router", "set_log_levels", "register_startup",
       "register_shutdown" >>

Stages == { StageOrder[i] : i \in DOMAIN StageOrder }

Calls == Stages \cup {"init_db", "import_agents", "shutdown_orchestrators"}

StageIndex(s) == CHOOSE i \in DOMAIN StageOrder : StageOrder[i] = s

NextStage_RouterFirst(s) ==
    IF s = "register_health" THEN "import_router"
    ELSE IF s = "import_router" THEN "import_db"
    ELSE IF s = "import_db" THEN "include_router"
    ELSE IF StageIndex(s) = Len(StageOrder) THEN "module_loaded"
    ELSE StageOrder[StageIndex(s) + 1]

NextStage(s) ==
    IF StageIndex(s) = Len(StageOrder) THEN "module_loaded"
    ELSE StageOrder[StageIndex(s) + 1]

----------------------------------------------------------------------------
(* Log records *)

Info(m, a)  == [level |-> "INFO",  msg |-> m, arg |-> a]
Error(m, a) == [level |-> "ERROR", msg |-> m, arg |-> a]
Traceback   == Error("traceback.format_exc()", "exc")

BoolStr(b) == IF b THEN "True" ELSE "False"

NoSettings == [loaded |-> FALSE, APP_NAME |-> "", APP_VERSION |-> "",
               DEBUG |-> FALSE, API_V1_PREFIX |-> ""]

(* No address bound by this file. *)
NoListener == [host |-> "", port |-> 0, reload |-> FALSE]

NoApp == [created |-> FALSE, title |-> "", version |-> "", debug |-> FALSE,
          redirect_slashes |-> FALSE, middleware |-> <<>>, routes |-> <<>>,
          on_startup |-> <<>>, on_shutdown |-> <<>>]

CORSMiddleware_Credentials ==
    [cls |-> "CORSMiddleware", allow_origins |-> {"*"},
     allow_credentials |-> TRUE, allow_methods |-> {"*"},
     allow_headers |-> {"*"}, expose_headers |-> {"*"}]

CORSMiddleware ==
    [cls |-> "CORSMiddleware", allow_origins |-> {"*"},
     allow_credentials |-> FALSE, allow_methods |-> {"*"},
     allow_headers |-> {"*"}, expose_headers |-> {"*"}]

----------------------------------------------------------------------------
Init ==
    /\ run_as \in RunModes
    /\ module_name = IF run_as = "script" THEN "__main__" ELSE "app.main"
    /\ listener = NoListener
    /\ handles = [m \in ModuleNames |-> 0]
    /\ pc = StageOrder[1]
    /\ platform \in Platforms
    /\ PORT \in PortValues
    /\ stdout_wrapped = FALSE
    /\ settings = NoSettings
    /\ app = NoApp
    /\ imported = {}
    /\ executed = <<>>
    /\ outcome = [c \in Calls |-> "none"]
    /\ log = <<>>
    /\ raised = "none"
    /\ responses = <<>>
    /\ startup_runs = 0
    /\ shutdown_runs = 0
    /\ init_db_calls = 0
    /\ startup_result = "none"
    /\ shutdown_result = "none"

(* An exception leaves the module body: the import of app.main fails. *)
Abort(s) ==
    /\ pc' = "Aborted"
    /\ raised' = s

Continue(s) ==
    /\ pc' = NextStage(s)
    /\ raised' = raised

Begin(s, o) ==
    /\ pc = s
    /\ executed' = Append(executed, s)
    /\ outcome' = [outcome EXCEPT ![s] = o]

----------------------------------------------------------------------------
(* Lines 10-26: logging.basicConfig, the three start-up records, and the   *)
(* win32 re-wrapping of stdout/stderr.  No try/except encloses them.       *)
configure_logging ==
    \E o \in Outcomes :
      /\ Begin("configure_logging", o)
      /\ IF o = "ok"
         THEN /\ log' = log \o << Info("Starting ArtReal Backend...", ""),
                                  Info("Working directory", ""),
                                  Info("PORT env", PORT) >>
              /\ stdout_wrapped' = (platform = "win32")
              /\ Continue("configure_logging")
         ELSE /\ UNCHANGED <<log, stdout_wrapped>>
              /\ Abort("configure_logging")
      /\ UNCHANGED <<run_as, module_name, listener, handles,
                     platform, PORT, settings, app, imported, responses,
                     startup_runs, shutdown_runs, init_db_calls,
                     startup_result, shutdown_result>>

(* Lines 28-35: from app.core.config import settings, inside               *)
(* try / except Exception: log the error, log the traceback, raise.        *)
load_settings_Swallow ==
    \E o \in Outcomes, v \in Versions, d \in BOOLEAN, p \in Prefixes :
      /\ Begin("load_settings", o)
      /\ "app.core.config" \in imported =>
            /\ o = "ok"
            /\ v = settings.APP_VERSION
            /\ d = settings.DEBUG
            /\ p = settings.API_V1_PREFIX
      /\ IF o = "ok"
         THEN /\ settings' = [loaded |-> TRUE, APP_NAME |-> "ArtReal",
                              APP_VERSION |-> v, DEBUG |-> d,
                              API_V1_PREFIX |-> p]
              /\ imported' = imported \cup {"app.core.config"}
              /\ log' = Append(log, Info("Settings loaded", BoolStr(d)))
         ELSE /\ UNCHANGED <<settings, imported>>
              /\ log' = log \o << Error("Failed to load settings", "exc"),
                                  Traceback >>
      /\ Continue("load_settings")
      /\ UNCHANGED <<run_as, module_name, listener, handles,
                     platform, PORT, stdout_wrapped, app, responses,
                     startup_runs, shutdown_runs, init_db_calls,
                     startup_result, shutdown_result>>

load_settings ==
    \E o \in Outcomes, v \in Versions, d \in BOOLEAN, p \in Prefixes :
      /\ Begin("load_settings", o)
      /\ "app.core.config" \in imported =>
            /\ o = "ok"
            /\ v = settings.APP_VERSION
            /\ d = settings.DEBUG
            /\ p = settings.API_V1_PREFIX
      /\ IF o = "ok"
         THEN /\ settings' = [loaded |-> TRUE, APP_NAME |-> "ArtReal",
                              APP_VERSION |-> v, DEBUG |-> d,
                              API_V1_PREFIX |-> p]
              /\ imported' = imported \cup {"app.core.config"}
              /\ log' = Append(log, Info("Settings loaded", BoolStr(d)))
              /\ Continue("load_settings")
         ELSE /\ UNCHANGED <<settings, imported>>
              /\ log' = log \o << Error("Failed to load settings", "exc"),
                                  Traceback >>
              /\ Abort("load_settings")
      /\ UNCHANGED <<run_as, module_name, listener, handles,
                     platform, PORT, stdout_wrapped, app, responses,
                     startup_runs, shutdown_runs, init_db_calls,
                     startup_result, shutdown_result>>

(* Lines 37-43: app = FastAPI(...).  No try/except. *)
create_app ==
    \E o \in Outcomes :
      /\ Begin("create_app", o)
      /\ IF o = "ok"
         THEN /\ app' = [NoApp EXCEPT !.created = TRUE,
                                      !.title = settings.APP_NAME,
                                      !.version = settings.APP_VERSION,
                                      !.debug = settings.DEBUG,
                                      !.redirect_slashes = FALSE]
              /\ handles' = [handles EXCEPT ![module_name] = @ + 1]
              /\ Continue("create_app")
         ELSE /\ UNCHANGED <<app, handles>>
              /\ Abort("create_app")
      /\ UNCHANGED <<run_as, module_name, listener,
                     platform, PORT, stdout_wrapped, settings, imported, log,
                     responses, startup_runs, shutdown_runs, init_db_calls,
                     startup_result, shutdown_result>>

(* Lines 45-53: app.add_middleware(CORSMiddleware, ...).  No try/except. *)
add_middleware ==
    \E o \in Outcomes :
      /\ Begin("add_middleware", o)
      /\ IF o = "ok"
         THEN /\ app' = [app EXCEPT !.middleware = Append(@, CORSMiddleware)]
              /\ Continue("add_middleware")
         ELSE /\ UNCHANGED app
              /\ Abort("add_middleware")
      /\ UNCHANGED <<run_as, module_name, listener, handles,
                     platform, PORT, stdout_wrapped, settings, imported, log,
                     responses, startup_runs, shutdown_runs, init_db_calls,
                     startup_result, shutdown_result>>

Route(p, e) == [path |-> p, endpoint |-> e]

(* Lines 55-63: @app.get("/") registers root.  No try/except. *)
register_root ==
    \E o \in Outcomes :
      /\ Begin("register_root", o)
      /\ IF o = "ok"
         THEN /\ app' = [app EXCEPT !.routes = Append(@, Route("/", "root"))]
              /\ Continue("register_root")
         ELSE /\ UNCHANGED app
              /\ Abort("register_root")
      /\ UNCHANGED <<run_as, module_name, listener, handles,
                     platform, PORT, stdout_wrapped, settings, imported, log,
                     responses, startup_runs, shutdown_runs, init_db_calls,
                     startup_result, shutdown_result>>

(* Lines 65-71: @app.get("/health") registers health_check, then the       *)
(* "Basic FastAPI app created" record.  No try/except.                     *)
register_health ==
    \E o \in Outcomes :
      /\ Begin("register_health", o)
      /\ IF o = "ok"
         THEN /\ app' = [app EXCEPT
                           !.routes = Append(@, Route("/health", "health_check"))]
              /\ log' = Append(log, Info("Basic FastAPI app created", ""))
              /\ Continue("register_health")
         ELSE /\ UNCHANGED <<app, log>>
              /\ Abort("register_health")
      /\ UNCHANGED <<run_as, module_name, listener, handles,
                     platform, PORT, stdout_wrapped, settings, imported,
                     responses, startup_runs, shutdown_runs, init_db_calls,
                     startup_result, shutdown_result>>

(* Lines 73-80: from app.db import init_db, inside                         *)
(* try / except Exception: log the error, log the traceback, raise.        *)
import_db_CallsInitDb ==
    \E o \in Outcomes :
      /\ Begin("import_db", o)
      /\ "app.db" \in imported => o = "ok"
      /\ IF o = "ok"
         THEN /\ imported' = imported \cup {"app.db"}
              /\ init_db_calls' = init_db_calls + 1
              /\ log' = Append(log, Info("Database module imported", ""))
              /\ Continue("import_db")
         ELSE /\ UNCHANGED <<imported, init_db_calls>>
              /\ log' = log \o << Error("Failed to import database module", "exc"),
                                  Traceback >>
              /\ Abort("import_db")
      /\ UNCHANGED <<run_as, module_name, listener, handles,
                     platform, PORT, stdout_wrapped, settings, app, responses,
                     startup_runs, shutdown_runs,
                     startup_result, shutdown_result>>

import_db ==
    \E o \in Outcomes :
      /\ Begin("import_db", o)
      /\ "app.db" \in imported => o = "ok"
      /\ IF o = "ok"
         THEN /\ imported' = imported \cup {"app.db"}
              /\ log' = Append(log, Info("Database module imported", ""))
              /\ Continue("import_db")
         ELSE /\ UNCHANGED imported
              /\ log' = log \o << Error("Failed to import database module", "exc"),
                                  Traceback >>
              /\ Abort("import_db")
      /\ UNCHANGED <<run_as, module_name, listener, handles,
                     platform, PORT, stdout_wrapped, settings, app, responses,
                     startup_runs, shutdown_runs, init_db_calls,
                     startup_result, shutdown_result>>

(* Lines 82-88: from app.api import api_router, inside                     *)
(* try / except Exception: log the error, log the traceback, raise.        *)
import_router_Swallow ==
    \E o \in Outcomes :
      /\ Begin("import_router", o)
      /\ "app.api" \in imported => o = "ok"
      /\ IF o = "ok"
         THEN /\ imported' = imported \cup {"app.api"}
              /\ log' = Append(log, Info("API router imported", ""))
         ELSE /\ UNCHANGED imported
              /\ log' = log \o << Error("Failed to import API router", "exc"),
                                  Traceback >>
      /\ Continue("import_router")
      /\ UNCHANGED <<run_as, module_name, listener, handles,
                     platform, PORT, stdout_wrapped, settings, app, responses,
                     startup_runs, shutdown_runs, init_db_calls,
                     startup_result, shutdown_result>>

import_router ==
    \E o \in Outcomes :
      /\ Begin("import_router", o)
      /\ "app.api" \in imported => o = "ok"
      /\ IF o = "ok"
         THEN /\ imported' = imported \cup {"app.api"}
              /\ log' = Append(log, Info("API router imported", ""))
              /\ Continue("import_router")
         ELSE /\ UNCHANGED imported
              /\ log' = log \o << Error("Failed to import API router", "exc"),
                                  Traceback >>
              /\ Abort("import_router")
      /\ UNCHANGED <<run_as, module_name, listener, handles,
                     platform, PORT, stdout_wrapped, settings, app, responses,
                     startup_runs, shutdown_runs, init_db_calls,
                     startup_result, shutdown_result>>

(* Lines 90-92: app.include_router(api_router, prefix=...), then the       *)
(* "API routes included" record.  No try/except.                           *)
include_router ==
    \E o \in Outcomes :
      /\ Begin("include_router", o)
      /\ IF o = "ok"
         THEN /\ app' = [app EXCEPT
                           !.routes = Append(@, Route(settings.API_V1_PREFIX,
                                                      "api_router"))]
              /\ log' = Append(log, Info("API routes included",
                                         settings.API_V1_PREFIX))
              /\ Continue("include_router")
         ELSE /\ UNCHANGED <<app, log>>
              /\ Abort("include_router")
      /\ UNCHANGED <<run_as, module_name, listener, handles,
                     platform, PORT, stdout_wrapped, settings, imported,
                     responses, startup_runs, shutdown_runs, init_db_calls,
                     startup_result, shutdown_result>>

(* Lines 94-97: the three setLevel calls.  No try/except. *)
set_log_levels ==
    \E o \in Outcomes :
      /\ Begin("set_log_levels", o)
      /\ IF o = "ok"
         THEN Continue("set_log_levels")
         ELSE Abort("set_log_levels")
      /\ UNCHANGED <<run_as, module_name, listener, handles,
                     platform, PORT, stdout_wrapped, settings, app, imported,
                     log, responses, startup_runs, shutdown_runs,
                     init_db_calls, startup_result, shutdown_result>>

(* Lines 99-101: @app.on_event("startup") registers startup_event. *)
register_startup ==
    \E o \in Outcomes :
      /\ Begin("register_startup", o)
      /\ IF o = "ok"
         THEN /\ app' = [app EXCEPT !.on_startup = Append(@, "startup_event")]
              /\ Continue("register_startup")
         ELSE /\ UNCHANGED app
              /\ Abort("register_startup")
      /\ UNCHANGED <<run_as, module_name, listener, handles,
                     platform, PORT, stdout_wrapped, settings, imported, log,
                     responses, startup_runs, shutdown_runs, init_db_calls,
                     startup_result, shutdown_result>>

(* Lines 112-113 and 121: @app.on_event("shutdown") registers              *)
(* shutdown_event, then the "ready to serve requests" record.              *)
register_shutdown ==
    \E o \in Outcomes :
      /\ Begin("register_shutdown", o)
      /\ IF o = "ok"
         THEN /\ app' = [app EXCEPT !.on_shutdown = Append(@, "shutdown_event")]
              /\ log' = Append(log, Info("FastAPI app ready to serve requests", ""))
              /\ Continue("register_shutdown")
         ELSE /\ UNCHANGED <<app, log>>
              /\ Abort("register_shutdown")
      /\ UNCHANGED <<run_as, module_name, listener, handles,
                     platform, PORT, stdout_wrapped, settings, imported,
                     responses, startup_runs, shutdown_runs, init_db_calls,
                     startup_result, shutdown_result>>

----------------------------------------------------------------------------
(* Lines 124-132: the entry point.  Only when the body ran as __main__:    *)
(* uvicorn.run("app.main:app", host="0.0.0.0", port=8000,                  *)
(* reload=settings.DEBUG).  The server is given the application as an      *)
(* import string, so it imports app.main: the module body runs again in a  *)
(* new namespace (modules already in sys.modules are not executed again),  *)
(* and the app of that namespace is the one served.  PORT is not read.     *)
PortNumber(p) == IF p = "8080" THEN 8080 ELSE 8000

main_entry_EnvPort ==
    /\ pc = "module_loaded"
    /\ module_name = "__main__"
    /\ listener' = [host |-> "0.0.0.0", port |-> PortNumber(PORT),
                    reload |-> settings.DEBUG]
    /\ module_name' = "app.main"
    /\ pc' = StageOrder[1]
    /\ app' = NoApp
    /\ executed' = <<>>
    /\ outcome' = [c \in Calls |-> "none"]
    /\ UNCHANGED <<run_as, handles, platform, PORT, stdout_wrapped, settings,
                   imported, log, raised, responses, startup_runs,
                   shutdown_runs, init_db_calls, startup_result,
                   shutdown_result>>

main_entry ==
    /\ pc = "module_loaded"
    /\ module_name = "__main__"
    /\ listener' = [host |-> "0.0.0.0", port |-> 8000,
                    reload |-> settings.DEBUG]
    /\ module_name' = "app.main"
    /\ pc' = StageOrder[1]
    /\ app' = NoApp
    /\ executed' = <<>>
    /\ outcome' = [c \in Calls |-> "none"]
    /\ UNCHANGED <<run_as, handles, platform, PORT, stdout_wrapped, settings,
                   imported, log, raised, responses, startup_runs,
                   shutdown_runs, init_db_calls, startup_result,
                   shutdown_result>>

----------------------------------------------------------------------------
(* Lifecycle hooks and request handlers *)

(* Lines 100-110: startup_event.  init_db() runs inside                    *)
(* try / except Exception: log the error, log the traceback, no raise.     *)
(* The server runs the hooks of app.on_startup once the module is loaded.  *)
startup_event_Raise ==
    /\ pc = "module_loaded"
    /\ module_name = "app.main"
    /\ \E i \in DOMAIN app.on_startup : app.on_startup[i] = "startup_event"
    /\ \E o \in Outcomes :
         /\ outcome' = [outcome EXCEPT !["init_db"] = o]
         /\ IF o = "ok"
            THEN /\ log' = log \o << Info("Initializing database...", ""),
                                     Info("Database initialized successfully", "") >>
                 /\ startup_result' = "returned"
                 /\ pc' = "started"
                 /\ raised' = raised
            ELSE /\ log' = log \o << Info("Initializing database...", ""),
                                     Error("Failed to initialize database", "exc"),
                                     Traceback >>
                 /\ startup_result' = "raised"
                 /\ pc' = "Aborted"
                 /\ raised' = "startup_event"
    /\ init_db_calls' = init_db_calls + 1
    /\ startup_runs' = startup_runs + 1
    /\ UNCHANGED <<run_as, module_name, listener, handles,
                     platform, PORT, stdout_wrapped, settings, app, imported,
                   executed, responses, shutdown_runs, shutdown_result>>

startup_event_IncludesRouter ==
    /\ pc = "module_loaded"
    /\ module_name = "app.main"
    /\ \E i \in DOMAIN app.on_startup : app.on_startup[i] = "startup_event"
    /\ \E o \in Outcomes :
         /\ outcome' = [outcome EXCEPT !["init_db"] = o]
         /\ IF o = "ok"
            THEN log' = log \o << Info("Initializing database...", ""),
                                  Info("Database initialized successfully", "") >>
            ELSE log' = log \o << Info("Initializing database...", ""),
                                  Error("Failed to initialize database", "exc"),
                                  Traceback >>
    /\ init_db_calls' = init_db_calls + 1
    /\ startup_runs' = startup_runs + 1
    /\ startup_result' = "returned"
    /\ pc' = "started"
    /\ app' = [app EXCEPT !.routes = Append(@, Route("/late", "api_router"))]
    /\ UNCHANGED <<run_as, module_name, listener, handles,
                     platform, PORT, stdout_wrapped, settings, imported,
                   executed, raised, responses, shutdown_runs, shutdown_result>>

startup_event_Retry ==
    /\ pc = "module_loaded"
    /\ module_name = "app.main"
    /\ \E i \in DOMAIN app.on_startup : app.on_startup[i] = "startup_event"
    /\ \E o \in Outcomes :
         /\ outcome' = [outcome EXCEPT !["init_db"] = o]
         /\ IF o = "ok"
            THEN log' = log \o << Info("Initializing database...", ""),
                                  Info("Database initialized successfully", "") >>
            ELSE log' = log \o << Info("Initializing database...", ""),
                                  Error("Failed to initialize database", "exc"),
                                  Traceback >>
    /\ init_db_calls' = IF outcome'["init_db"] = "exc" THEN init_db_calls + 2
                        ELSE init_db_calls + 1
    /\ startup_runs' = startup_runs + 1
    /\ startup_result' = "returned"
    /\ pc' = "started"
    /\ UNCHANGED <<run_as, module_name, listener, handles,
                     platform, PORT, stdout_wrapped, settings, app, imported,
                   executed, raised, responses, shutdown_runs, shutdown_result>>

startup_event ==
    /\ pc = "module_loaded"
    /\ module_name = "app.main"
    /\ \E i \in DOMAIN app.on_startup : app.on_startup[i] = "startup_event"
    /\ \E o \in Outcomes :
         /\ outcome' = [outcome EXCEPT !["init_db"] = o]
         /\ IF o = "ok"
            THEN log' = log \o << Info("Initializing database...", ""),
                                  Info("Database initialized successfully", "") >>
            ELSE log' = log \o << Info("Initializing database...", ""),
                                  Error("Failed to initialize database", "exc"),
                                  Traceback >>
    /\ init_db_calls' = init_db_calls + 1
    /\ startup_runs' = startup_runs + 1
    /\ startup_result' = "returned"
    /\ pc' = "started"
    /\ UNCHANGED <<run_as, module_name, listener, handles,
                     platform, PORT, stdout_wrapped, settings, app, imported,
                   executed, raised, responses, shutdown_runs, shutdown_result>>

(* Startup is complete: the server begins to accept connections. *)
serve ==
    /\ pc = "started"
    /\ startup_result = "returned"
    /\ pc' = "Serving"
    /\ UNCHANGED <<run_as, module_name, listener, handles,
                     platform, PORT, stdout_wrapped, settings, app, imported,
                   executed, outcome, log, raised, responses, startup_runs,
                   shutdown_runs, init_db_calls, startup_result,
                   shutdown_result>>

(* Lines 57-63: root() *)
root_FixedVersion ==
    [message |-> "Welcome to ArtReal API", version |-> "0.1.0", docs |-> "/docs"]

root ==
    [message |-> "Welcome to ArtReal API",
     version |-> settings.APP_VERSION,
     docs    |-> "/docs"]

(* Lines 67-69: health_check() *)
health_check == [status |-> "healthy"]

Response(p, s, b) == [path |-> p, status |-> s, body |-> b]

(* Dispatch of GET p over the routes registered on app, first match. *)
Dispatch(p) ==
    IF \E i \in DOMAIN app.routes : app.routes[i].path = p
    THEN LET i == CHOOSE j \in DOMAIN app.routes :
                    /\ app.routes[j].path = p
                    /\ \A k \in 1..(j - 1) : app.routes[k].path # p
             e == app.routes[i].endpoint
         IN  IF e = "root" THEN Response(p, 200, root)
             ELSE IF e = "health_check" THEN Response(p, 200, health_check)
             ELSE Response(p, 200, [router |-> "api_router"])
    ELSE Response(p, 404, [detail |-> "Not Found"])

handle_request ==
    /\ pc = "Serving"
    /\ Len(responses) < MaxRequests
    /\ \E p \in RequestPaths : responses' = Append(responses, Dispatch(p))
    /\ UNCHANGED <<run_as, module_name, listener, handles,
                     pc, platform, PORT, stdout_wrapped, settings, app, imported,
                   executed, outcome, log, raised, startup_runs, shutdown_runs,
                   init_db_calls, startup_result, shutdown_result>>

(* The process manager asks the serving process to stop. *)
request_shutdown ==
    /\ pc = "Serving"
    /\ pc' = "ShutdownRequested"
    /\ UNCHANGED <<run_as, module_name, listener, handles,
                     platform, PORT, stdout_wrapped, settings, app, imported,
                   executed, outcome, log, raised, responses, startup_runs,
                   shutdown_runs, init_db_calls, startup_result,
                   shutdown_result>>

(* Outcomes of the two calls of shutdown_event's try block: the import of  *)
(* app.agents, then, only if it succeeded, shutdown_orchestrators().       *)
ShutdownOutcomes == { <<"exc", "none">>, <<"ok", "ok">>, <<"ok", "exc">> }

(* Lines 112-119: shutdown_event.  The import of app.agents and the await  *)
(* of shutdown_orchestrators() run inside                                  *)
(* try / except Exception: log the error (message only), no raise.         *)
shutdown_event_Raise ==
    /\ pc = "ShutdownRequested"
    /\ \E i \in DOMAIN app.on_shutdown : app.on_shutdown[i] = "shutdown_event"
    /\ \E r \in ShutdownOutcomes :
         LET oi == r[1]
             os == r[2]
             failed == (oi = "exc" \/ os = "exc") IN
         /\ outcome' = [outcome EXCEPT !["import_agents"] = oi,
                                       !["shutdown_orchestrators"] = os]
         /\ imported' = IF oi = "ok" THEN imported \cup {"app.agents"}
                        ELSE imported
         /\ log' = IF failed THEN Append(log, Error("Error during shutdown", "exc"))
                   ELSE log
         /\ shutdown_result' = IF failed THEN "raised" ELSE "returned"
    /\ shutdown_runs' = shutdown_runs + 1
    /\ pc' = "ResourcesReleased"
    /\ UNCHANGED <<run_as, module_name, listener, handles,
                     platform, PORT, stdout_wrapped, settings, app, executed,
                   raised, responses, startup_runs, init_db_calls,
                   startup_result>>

shutdown_event_ImportOutsideTry ==
    /\ pc = "ShutdownRequested"
    /\ \E i \in DOMAIN app.on_shutdown : app.on_shutdown[i] = "shutdown_event"
    /\ \E r \in ShutdownOutcomes :
         LET oi == r[1]
             os == r[2]
             failed == (oi = "exc" \/ os = "exc") IN
         /\ outcome' = [outcome EXCEPT !["import_agents"] = oi,
                                       !["shutdown_orchestrators"] = os]
         /\ imported' = IF oi = "ok" THEN imported \cup {"app.agents"}
                        ELSE imported
         /\ log' = IF failed THEN Append(log, Error("Error during shutdown", "exc"))
                   ELSE log
    /\ shutdown_runs' = shutdown_runs + 1
    /\ shutdown_result' = IF outcome'["import_agents"] = "exc" THEN "raised"
                          ELSE "returned"
    /\ pc' = "ResourcesReleased"
    /\ UNCHANGED <<run_as, module_name, listener, handles,
                     platform, PORT, stdout_wrapped, settings, app, executed,
                   raised, responses, startup_runs, init_db_calls,
                   startup_result>>

shutdown_event ==
    /\ pc = "ShutdownRequested"
    /\ \E i \in DOMAIN app.on_shutdown : app.on_shutdown[i] = "shutdown_event"
    /\ \E r \in ShutdownOutcomes :
         LET oi == r[1]
             os == r[2]
             failed == (oi = "exc" \/ os = "exc") IN
         /\ outcome' = [outcome EXCEPT !["import_agents"] = oi,
                                       !["shutdown_orchestrators"] = os]
         /\ imported' = IF oi = "ok" THEN imported \cup {"app.agents"}
                        ELSE imported
         /\ log' = IF failed THEN Append(log, Error("Error during shutdown", "exc"))
                   ELSE log
    /\ shutdown_runs' = shutdown_runs + 1
    /\ shutdown_result' = "returned"
    /\ pc' = "ResourcesReleased"
    /\ UNCHANGED <<run_as, module_name, listener, handles,
                     platform, PORT, stdout_wrapped, settings, app, executed,
                   raised, responses, startup_runs, init_db_calls,
                   startup_result>>

(* The shutdown hooks have run: the process exits. *)
process_exit ==
    /\ pc = "ResourcesReleased"
    /\ pc' = "Stopped"
    /\ UNCHANGED <<run_as, module_name, listener, handles,
                     platform, PORT, stdout_wrapped, settings, app, imported,
                   executed, outcome, log, raised, responses, startup_runs,
                   shutdown_runs, init_db_calls, startup_result,
                   shutdown_result>>

----------------------------------------------------------------------------
Next ==
    \/ configure_logging
    \/ load_settings
    \/ create_app
    \/ add_middleware
    \/ register_root
    \/ register_health
    \/ import_db
    \/ import_router
    \/ include_router
    \/ set_log_levels
    \/ register_startup
    \/ register_shutdown
    \/ main_entry
    \/ startup_event
    \/ serve
    \/ handle_request
    \/ request_shutdown
    \/ shutdown_event
    \/ process_exit

Spec == Init /\ [][Next]_vars

(* The server drives the lifecycle to completion: once the module is       *)
(* loaded the startup hooks run and serving begins, and once shutdown is   *)
(* requested the shutdown hooks run and the process exits.                 *)
FairSpec ==
    /\ Spec
    /\ WF_vars(startup_event)
    /\ WF_vars(serve)
    /\ WF_vars(shutdown_event)
    /\ WF_vars(process_exit)

----------------------------------------------------------------------------
(* Vocabulary of the properties *)

Executed(s) == \E i \in DOMAIN executed : executed[i] = s

Pos(s) == CHOOSE i \in DOMAIN executed : executed[i] = s

HasRoute(p) == \E i \in DOMAIN app.routes : app.routes[i].path = p

IsPrefix(a, b) ==
    /\ Len(a) <= Len(b)
    /\ \A i \in DOMAIN a : a[i] = b[i]

(* An ERROR record with message m directly followed by the traceback. *)
LoggedWithTrace(m) ==
    \E i \in 1..(Len(log) - 1) : log[i] = Error(m, "exc") /\ log[i + 1] = Traceback

(* Some ERROR record about an exception directly followed by the traceback. *)
SomeFailureLoggedWithTrace ==
    \E i \in 1..(Len(log) - 1) :
        log[i].level = "ERROR" /\ log[i].arg = "exc" /\ log[i + 1] = Traceback

AfterStartup == {"started", "Serving", "ShutdownRequested", "ResourcesReleased", "Stopped"}

HeavyStages == {"import_db", "import_router", "include_router", "set_log_levels",
                "register_startup", "register_shutdown"}

----------------------------------------------------------------------------
(* C1 (as stated): the /health endpoint is registered on the application   *)
(* handle before any fatal stage executes, configuring logging and loading *)
(* configuration included.                                                 *)
C1_HealthBeforeEveryFatalStage ==
    \A s \in Stages \ {"register_health", "set_log_levels"} :
        Executed(s) =>
            /\ Executed("register_health")
            /\ Pos("register_health") < Pos(s)

(* C1 (amended): the /health endpoint is registered on the application     *)
(* handle before the database-module import, the router import, the router *)
(* attachment and every later stage execute; configuring logging, loading  *)
(* configuration, constructing the handle, registering CORS and the root   *)
(* endpoint execute before it.                                             *)
C1_HealthBeforeHeavyStages ==
    /\ \A s \in HeavyStages :
         Executed(s) =>
            /\ Executed("register_health")
            /\ Pos("register_health") < Pos(s)
            /\ outcome["register_health"] = "ok"
            /\ HasRoute("/health")
    /\ \A s \in Stages \ (HeavyStages \cup {"register_health"}) :
         Executed("register_health") => Executed(s) /\ Pos(s) < Pos("register_health")

C1_Witness ==
    /\ outcome["import_db"] = "exc"
    /\ HasRoute("/health")

(* C2: if all blocking stages succeed and init_db raises inside the        *)
(* startup hook, the hook returns normally, nothing propagates, the        *)
(* service goes on to Serving, and every GET /health answers 200 with      *)
(* {"status": "healthy"} whatever the outcome of init_db.                  *)
C2_InitDbFailureStillServes ==
    /\ [](outcome["init_db"] = "exc" =>
            /\ startup_result = "returned"
            /\ raised = "none"
            /\ pc \in AfterStartup)
    /\ [](\A i \in DOMAIN responses :
            responses[i].path = "/health" =>
                /\ responses[i].status = 200
                /\ responses[i].body = [status |-> "healthy"])
    /\ ((outcome["init_db"] = "exc" /\ pc = "started") ~> (pc = "Serving"))

C2_Witness ==
    /\ outcome["init_db"] = "exc"
    /\ pc = "Serving"
    /\ \E i \in DOMAIN responses :
          responses[i] = Response("/health", 200, [status |-> "healthy"])

(* C3: if the import of settings raises, the error is logged and           *)
(* re-raised, no application handle is constructed, no later stage runs,   *)
(* no hook runs and the Serving state is never reached.                    *)
C3_SettingsFailureAborts ==
    outcome["load_settings"] = "exc" =>
        /\ pc = "Aborted"
        /\ raised = "load_settings"
        /\ ~app.created
        /\ app = NoApp
        /\ executed = <<"configure_logging", "load_settings">>
        /\ startup_runs = 0
        /\ responses = <<>>

C3_Witness ==
    /\ outcome["load_settings"] = "exc"
    /\ LoggedWithTrace("Failed to load settings")

(* C4: if the database-module import or the router import raises, the      *)
(* error is re-raised and Serving is never reached: the run stops at that  *)
(* stage with the root and health endpoints already registered.            *)
C4_ImportFailureAborts ==
    \A s \in {"import_db", "import_router"} :
        outcome[s] = "exc" =>
            /\ pc = "Aborted"
            /\ raised = s
            /\ executed[Len(executed)] = s
            /\ HasRoute("/") /\ HasRoute("/health")
            /\ startup_runs = 0
            /\ responses = <<>>

C4_Witness ==
    /\ outcome["import_router"] = "exc"
    /\ outcome["import_db"] = "ok"
    /\ HasRoute("/health")
    /\ pc = "Aborted"

(* C5: on every shutdown from Serving the shutdown hook runs exactly once, *)
(* returns normally whether shutdown_orchestrators succeeds or raises, and *)
(* the process reaches Stopped.                                            *)
C5_ShutdownOnceAndStops ==
    /\ [](shutdown_runs <= 1)
    /\ [](pc \in {"ResourcesReleased", "Stopped"} =>
            shutdown_runs = 1 /\ shutdown_result = "returned")
    /\ [](pc \notin {"ResourcesReleased", "Stopped"} => shutdown_runs = 0)
    /\ ((pc = "ShutdownRequested") ~> (pc = "Stopped"))

C5_Witness ==
    /\ pc = "Stopped"
    /\ outcome["shutdown_orchestrators"] = "exc"
    /\ shutdown_runs = 1

(* C6 (as stated): a failure of any stage of the bootstrap is logged with  *)
(* its error message and stack trace before the bootstrap aborts.          *)
C6_EveryStageFailureLogged ==
    \A s \in Stages :
        outcome[s] = "exc" => SomeFailureLoggedWithTrace

(* C7 (as stated): an exception raised in either deferred hook is caught,  *)
(* logged together with its stack trace, and swallowed.                    *)
C7_HookFailureLoggedWithTrace ==
    /\ outcome["init_db"] = "exc" =>
          /\ startup_result = "returned"
          /\ LoggedWithTrace("Failed to initialize database")
    /\ (outcome["import_agents"] = "exc" \/ outcome["shutdown_orchestrators"] = "exc") =>
          /\ shutdown_result = "returned"
          /\ LoggedWithTrace("Error during shutdown")

(* C8 (as stated): a failure while adjusting per-subsystem log verbosity   *)
(* is non-fatal: the bootstrap does not abort and goes on to the           *)
(* registration of the lifecycle hooks.                                    *)
C8_LogLevelFailureNonFatal ==
    outcome["set_log_levels"] = "exc" =>
        /\ pc # "Aborted"
        /\ raised = "none"

(* C9: the stages execute in one fixed order, a stage runs only after      *)
(* every earlier stage has completed, and Serving is entered only after    *)
(* all blocking stages have completed without an error propagating.        *)
C9_FixedStageOrder ==
    LET order == << "configure_logging", "load_settings", "create_app",
                    "add_middleware", "register_root", "register_health",
                    "import_db", "import_router", "include_router",
                    "set_log_levels", "register_startup", "register_shutdown" >>
    IN  /\ IsPrefix(executed, order)
        /\ \A i \in 1..(Len(executed) - 1) : outcome[executed[i]] = "ok"
        /\ pc \in {"module_loaded"} \cup AfterStartup =>
              /\ executed = order
              /\ \A s \in Stages : outcome[s] = "ok"
              /\ raised = "none"

C9_Witness ==
    /\ pc = "Serving"
    /\ Len(executed) = 12

(* C10: for every configured version string v, GET / answers 200 with      *)
(* version v, the value the application handle was constructed with, docs  *)
(* "/docs" and message "Welcome to ArtReal API", whatever init_db did.     *)
C10_RootReportsConfiguredVersion ==
    \A i \in DOMAIN responses :
        responses[i].path = "/" =>
            /\ responses[i].status = 200
            /\ responses[i].body.version = settings.APP_VERSION
            /\ responses[i].body.version = app.version
            /\ responses[i].body.docs = "/docs"
            /\ responses[i].body.message = "Welcome to ArtReal API"
            /\ DOMAIN responses[i].body = {"message", "version", "docs"}

C10_Witness ==
    /\ outcome["init_db"] = "exc"
    /\ \E i \in DOMAIN responses :
          /\ responses[i].path = "/"
          /\ responses[i].body.version = "2.3.1"

(* C11: the CORS policy registered on the application handle permits any   *)
(* origin, any method and any header and never allows credentials, and it  *)
(* is registered before any endpoint or router is attached.                *)
C11_CorsPermissiveNoCredentials ==
    /\ \A i \in DOMAIN app.middleware :
          /\ app.middleware[i].cls = "CORSMiddleware"
          /\ app.middleware[i].allow_origins = {"*"}
          /\ app.middleware[i].allow_methods = {"*"}
          /\ app.middleware[i].allow_headers = {"*"}
          /\ app.middleware[i].allow_credentials = FALSE
    /\ Len(app.middleware) <= 1
    /\ app.routes # <<>> => Len(app.middleware) = 1
    /\ \A s \in {"register_root", "register_health", "include_router"} :
          Executed(s) =>
             /\ Executed("add_middleware")
             /\ outcome["add_middleware"] = "ok"
             /\ Pos("add_middleware") < Pos(s)

C11_Witness ==
    /\ pc = "Serving"
    /\ Len(app.middleware) = 1
    /\ Len(app.routes) = 3

Lifecycle == {"module_loaded"} \cup AfterStartup

FullOrder ==
    << "configure_logging", "load_settings", "create_app", "add_middleware",
       "register_root", "register_health", "import_db", "import_router",
       "include_router", "set_log_levels", "register_startup",
       "register_shutdown" >>

(* C12: the served application handle is constructed exactly once (no      *)
(* namespace constructs more than one), its endpoint set, middleware chain *)
(* and lifecycle hooks change only while a blocking stage of the module    *)
(* body executes, and no startup, request or shutdown step changes them.   *)
C12_HandleReadOnlyOnceServing ==
    /\ [](\A m \in ModuleNames : handles[m] <= 1)
    /\ [](module_name = "app.main" /\ pc \in Lifecycle =>
            handles["app.main"] = 1 /\ app.created)
    /\ [][(app' # app /\ module_name' = module_name) => pc \in Stages]_vars
    /\ [][(module_name = "app.main" /\ pc \in Lifecycle) => app' = app]_vars

C12_Witness ==
    /\ pc = "Stopped"
    /\ Len(responses) = MaxRequests
    /\ outcome["init_db"] = "exc"
    /\ handles["app.main"] = 1

C14_EntryPointBindsFixedAddress ==
    /\ listener # NoListener =>
          /\ listener.host = "0.0.0.0"
          /\ listener.port = 8000
          /\ run_as = "script"
    /\ (run_as = "script" /\ module_name = "app.main") => listener # NoListener
    /\ (run_as = "script" /\ module_name = "__main__") => listener = NoListener
    /\ outcome["configure_logging"] = "ok" =>
          \E i \in DOMAIN log : log[i] = Info("PORT env", PORT)

C14_Witness ==
    /\ PORT = "8080"
    /\ run_as = "script"
    /\ pc = "Serving"
    /\ listener.port = 8000

(* C15: app.agents is imported only inside the shutdown hook; a failure of *)
(* that import is swallowed like any other shutdown error, Serving is      *)
(* reached before the import is ever attempted, and the failure is never   *)
(* fatal.                                                                  *)
C15_AgentsImportOnlyAtShutdown ==
    /\ pc \notin {"ResourcesReleased", "Stopped"} =>
          /\ outcome["import_agents"] = "none"
          /\ "app.agents" \notin imported
    /\ outcome["import_agents"] = "exc" =>
          /\ shutdown_result = "returned"
          /\ raised = "none"
          /\ pc \in {"ResourcesReleased", "Stopped"}
          /\ outcome["shutdown_orchestrators"] = "none"
          /\ log[Len(log)] = Error("Error during shutdown", "exc")

C15_Witness ==
    /\ outcome["import_agents"] = "exc"
    /\ pc = "Stopped"

(* C16: if the bootstrap aborts in a stage of the module body, neither     *)
(* lifecycle hook has run or ever runs: init_db and shutdown_orchestrators *)
(* are not invoked in a run that does not get past the module body.        *)
C16_NoHookAfterAbort ==
    (pc = "Aborted" \/ pc \in Stages) =>
        /\ startup_runs = 0
        /\ shutdown_runs = 0
        /\ init_db_calls = 0
        /\ outcome["init_db"] = "none"
        /\ outcome["import_agents"] = "none"
        /\ outcome["shutdown_orchestrators"] = "none"
        /\ startup_result = "none"
        /\ shutdown_result = "none"

C16_Witness ==
    /\ pc = "Aborted"
    /\ raised = "import_router"
    /\ outcome["import_db"] = "ok"

====
